---- MODULE Spec2Model ----
(***************************************************************************)
(* GPU Resource Profiler: the sampling loop of GPUProfiler                 *)
(* (src/src/profiler.py) with the monitors it calls (src/src/utils), and   *)
(* the PerformanceAnalyzer (src/src/analysis.py) that reads the samples.   *)
(*                                                                         *)
(* One unit of the clock `now` is one second, which is also the resolution *)
(* of the artifact's file name (profile_%Y%m%d_%H%M%S.json).               *)
(* Python's None is the empty tuple for object-valued fields and the       *)
(* string "None" for string-valued fields; an Optional[float] argument is  *)
(* a sequence of length 0 (None) or 1.                                     *)
(***************************************************************************)
EXTENDS Integers, Sequences, FiniteSets, TLC

VARIABLES
    pc,                \* position of the caller in __init__ / start_profiling
    gpu_monitor,       \* self.gpu_monitor: None or [device_count]
    env_detector,      \* self.env_detector: the detector's cached fields
    sampling_interval, \* self.sampling_interval
    current_profile,   \* self.current_profile (None before __init__ sets it)
    duration,          \* start_profiling's argument
    start_time,        \* start_profiling's local start_time
    now,               \* the clock read by time.time() and datetime.now()
    files,             \* the profile_*.json files of output_dir
    run_log,           \* the records logged since the current run's first line
    ticks,             \* history: one record per _collect_sample call
    saves,             \* history: one record per _save_profile call of the run
    runs,              \* history: number of start_profiling calls so far
    env_calls,         \* history: one record per get_environment_info call
    apc,               \* position of the caller of PerformanceAnalyzer
    config,            \* self.config of the analyzer (None before __init__)
    df,                \* the DataFrame handed to analyze_profile, row by row
    insights,          \* self.insights of the analyzer
    todo,              \* analyze_profile's loop: the device ids still to do
    earlier,           \* history: the analyze_profile calls so far, the last one last
    calls              \* the analyze_profile calls of two threads on one analyzer

callVars == <<earlier, calls>>

analyzerVars == <<apc, config, df, insights, todo, callVars>>

samplerVars == <<pc, gpu_monitor, env_detector, sampling_interval,
                 current_profile, duration, start_time, now, files, run_log,
                 ticks, saves, runs, env_calls>>

vars == <<samplerVars, analyzerVars>>

----------------------------------------------------------------------------
(* Bounds of the model *)

\* MaxTicks bounds the _collect_sample calls made on one profiler, over all
\* its runs; every run makes at least one, so it bounds the runs as well.
MaxTicks == 2
MaxWork == 1
MaxInterval == 1
MaxDuration == 1
MaxDevices == 1
\* MaxRows and MaxIdleRows bound the rows of the DataFrame that is built row
\* by row before analyze_profile reads it.
MaxRows == 3
MaxIdleRows == 5
MaxOrderRows == 4
MaxCallRows == 2
MaxCalls == 2
MaxEnvCalls == 3

None == <<>>

\* sampling_interval is any float the caller passes; a negative one makes
\* time.sleep raise ValueError inside the loop body.
Intervals == {-1} \cup (0..MaxInterval)

\* duration: Optional[float]
Durations == {None} \cup {<<d>> : d \in 0..MaxDuration}

\* What the metric sources do during one tick: all calls return
\* (fails = "none"), or the named call is the first that does not return,
\* because it raises or because a KeyboardInterrupt arrives during it.
SourceOutcomes ==
    {[fails |-> "none", how |-> "raise"]} \cup
    [fails : {"env", "host", "dev"}, how : {"raise", "interrupt"}]

\* What the detector's probes find on the host the profiler runs on.
HostProbe == [container_type |-> "None", hypervisor |-> "None"]

\* What the file system does when _save_profile opens and writes the file.
IoOutcomes == {"ok", "open_fails", "write_fails"}

Last(s) == s[Len(s)]

----------------------------------------------------------------------------
(* Values *)

DataclassTypes == {"EnvironmentInfo", "SystemStats", "GPUStats"}

\* dataclasses.asdict: a dict of the fields of a dataclass instance,
\* TypeError for any other object.
asdict(obj) ==
    IF obj.cls \in DataclassTypes
    THEN [raised |-> FALSE, value |-> obj.fields]
    ELSE [raised |-> TRUE, value |-> None]

NewDetector ==
    [environment_type |-> "None", hypervisor |-> "None", container_type |-> "None"]

DetectEnvironment_VmFirst(det, probe) ==
    IF det.environment_type # "None" THEN det
    ELSE IF probe.hypervisor # "None"
         THEN [det EXCEPT !.environment_type = "vm",
                          !.hypervisor = probe.hypervisor]
         ELSE IF probe.container_type # "None"
              THEN [det EXCEPT !.environment_type = "container",
                               !.container_type = probe.container_type]
              ELSE [det EXCEPT !.environment_type = "bare-metal"]

\* The same when a KeyboardInterrupt arrives between the assignment of
\* self._environment_type and the assignment that follows it.
DetectEnvironmentInterrupted(det, probe) ==
    IF det.environment_type # "None" THEN det
    ELSE IF probe.container_type # "None"
         THEN [det EXCEPT !.environment_type = "container"]
         ELSE IF probe.hypervisor # "None"
              THEN [det EXCEPT !.environment_type = "vm"]
              ELSE [det EXCEPT !.environment_type = "bare-metal"]

\* EnvironmentDetector.get_environment_info: detect on the first call only
\* (container first, then VM), then build the EnvironmentInfo from the cache.
DetectEnvironment(det, probe) ==
    IF det.environment_type # "None" THEN det
    ELSE IF probe.container_type # "None"
         THEN [det EXCEPT !.environment_type = "container",
                          !.container_type = probe.container_type]
         ELSE IF probe.hypervisor # "None"
              THEN [det EXCEPT !.environment_type = "vm",
                               !.hypervisor = probe.hypervisor]
              ELSE [det EXCEPT !.environment_type = "bare-metal"]

get_environment_info(det, t) ==
    [cls |-> "EnvironmentInfo",
     fields |-> [timestamp |-> t,
                 environment_type |-> det.environment_type,
                 hypervisor |-> det.hypervisor,
                 container_type |-> det.container_type]]

\* SystemMonitor.get_system_info returns a plain dict, not a SystemStats.
get_system_info ==
    [cls |-> "dict", fields |-> [platform |-> "Linux", hostname |-> "host"]]

\* GPUMonitor.get_gpu_stats / get_all_gpu_stats: one GPUStats per device,
\* device ids 0..device_count-1 in order.
get_gpu_stats(i, t) ==
    [cls |-> "GPUStats", fields |-> [timestamp |-> t, device_id |-> i]]

get_all_gpu_stats(mon, t) ==
    [k \in 1..mon.device_count |-> get_gpu_stats(k - 1, t)]

EmptyProfile(t) ==
    [start_time |-> t, environment |-> None, system_info |-> None,
     gpu_stats |-> <<>>]

----------------------------------------------------------------------------
(* GPUProfiler._collect_sample, statement by statement.  Each step gives    *)
(* the profile and detector it leaves and how it exits: "go" (fall through  *)
(* to the next statement), "Exception" (caught by the method's except       *)
(* clause) or "KeyboardInterrupt" (not an Exception: it leaves the method). *)

Step(exit, p, det) == [exit |-> exit, profile |-> p, detector |-> det]

EnvRequested_Always(p) == TRUE

\* if self.current_profile['environment'] is None:
EnvRequested(p) == p.environment = None

\*     self.current_profile['environment'] = asdict(get_environment_info())
EnvStep(p, det, src, probe, t) ==
    IF ~EnvRequested(p) THEN Step("go", p, det)
    ELSE IF src.fails = "env" /\ src.how = "interrupt"
    THEN Step("KeyboardInterrupt", p, det)
    ELSE IF src.fails = "env" THEN Step("Exception", p, det)
    ELSE LET d2 == DetectEnvironment(det, probe)
             a == asdict(get_environment_info(d2, t))
         IN  IF a.raised THEN Step("Exception", p, d2)
             ELSE Step("go", [p EXCEPT !.environment = a.value], d2)

\* system_info = get_system_info(); self.current_profile['system_info'] = asdict(system_info)
HostStep(p, det, src) ==
    IF src.fails = "host" /\ src.how = "interrupt"
    THEN Step("KeyboardInterrupt", p, det)
    ELSE IF src.fails = "host" THEN Step("Exception", p, det)
    ELSE LET a == asdict(get_system_info)
         IN  IF a.raised THEN Step("Exception", p, det)
             ELSE Step("go", [p EXCEPT !.system_info = a.value], det)

\* gpu_stats = get_all_gpu_stats(); self.current_profile['gpu_stats'].append([...])
\* With no device the list comprehension calls nothing, so nothing can fail.
DeviceStep(p, det, mon, src, t) ==
    IF mon.device_count > 0 /\ src.fails = "dev" /\ src.how = "interrupt"
    THEN Step("KeyboardInterrupt", p, det)
    ELSE IF mon.device_count > 0 /\ src.fails = "dev"
    THEN Step("Exception", p, det)
    ELSE LET stats == get_all_gpu_stats(mon, t)
             dicts == [k \in 1..Len(stats) |-> asdict(stats[k])]
         IN  IF \E k \in 1..Len(stats) : dicts[k].raised
             THEN Step("Exception", p, det)
             ELSE Step("go",
                       [p EXCEPT !.gpu_stats =
                           Append(@, [k \in 1..Len(stats) |-> dicts[k].value])],
                       det)

\* The whole method: "sample" when a dict is returned, "None" when the
\* except clause logged the error, "KeyboardInterrupt" when that propagates.
Returned(result, s) ==
    [result |-> result, profile |-> s.profile, detector |-> s.detector]

\* except Exception as e: self.logger.error(...); return None
CaughtResult == "None"

_collect_sample_AppendBeforeHost(p, det, mon, src, probe, t) ==
    LET s1 == EnvStep(p, det, src, probe, t) IN
    IF s1.exit = "KeyboardInterrupt" THEN Returned("KeyboardInterrupt", s1)
    ELSE IF s1.exit = "Exception" THEN Returned(CaughtResult, s1)
    ELSE LET s2 == DeviceStep(s1.profile, s1.detector, mon, src, t) IN
    IF s2.exit = "KeyboardInterrupt" THEN Returned("KeyboardInterrupt", s2)
    ELSE IF s2.exit = "Exception" THEN Returned(CaughtResult, s2)
    ELSE LET s3 == HostStep(s2.profile, s2.detector, src) IN
    IF s3.exit = "KeyboardInterrupt" THEN Returned("KeyboardInterrupt", s3)
    ELSE IF s3.exit = "Exception" THEN Returned(CaughtResult, s3)
    ELSE Returned("sample", s3)

_collect_sample(p, det, mon, src, probe, t) ==
    LET s1 == EnvStep(p, det, src, probe, t) IN
    IF s1.exit = "KeyboardInterrupt" THEN Returned("KeyboardInterrupt", s1)
    ELSE IF s1.exit = "Exception" THEN Returned(CaughtResult, s1)
    ELSE LET s2 == HostStep(s1.profile, s1.detector, src) IN
    IF s2.exit = "KeyboardInterrupt" THEN Returned("KeyboardInterrupt", s2)
    ELSE IF s2.exit = "Exception" THEN Returned(CaughtResult, s2)
    ELSE LET s3 == DeviceStep(s2.profile, s2.detector, mon, src, t) IN
    IF s3.exit = "KeyboardInterrupt" THEN Returned("KeyboardInterrupt", s3)
    ELSE IF s3.exit = "Exception" THEN Returned(CaughtResult, s3)
    ELSE Returned("sample", s3)

\* History: every source call this tick needs would have returned.
Acquired(p, mon, src) ==
    /\ (EnvRequested(p) => src.fails # "env")
    /\ src.fails # "host"
    /\ (mon.device_count > 0 => src.fails # "dev")

----------------------------------------------------------------------------
(* GPUProfiler._save_profile *)

\* json.dump raises TypeError on a datetime: the environment dict holds
\* EnvironmentInfo.timestamp and every device dict holds GPUStats.timestamp.
JsonSerializable(p) ==
    /\ p.environment = None
    /\ \A i \in 1..Len(p.gpu_stats) : p.gpu_stats[i] = <<>>

\* "saved", "truncated" (the file was opened for writing, the dump did not
\* finish) or "no_file" (open failed).
SaveOutcome(p, io) ==
    IF io = "open_fails" THEN "no_file"
    ELSE IF io = "write_fails" \/ ~JsonSerializable(p) THEN "truncated"
    ELSE "saved"

\* The directory after the attempt: open(..., 'w') replaces a file of the
\* same name.
WriteFile(fs, name, outcome, p) ==
    IF outcome = "no_file" THEN fs
    ELSE {f \in fs : f.name # name} \cup
         {[name |-> name,
           json |-> IF outcome = "saved" THEN "complete" ELSE "truncated",
           doc |-> IF outcome = "saved" THEN p ELSE None]}

AfterSave_Reraise(outcome) ==
    IF outcome = "saved" THEN "returned" ELSE "raised"

\* except Exception: log the error, swallow it.
AfterSave(outcome) == "returned"

SaveLogLine(outcome) ==
    IF outcome = "saved" THEN "Profile saved" ELSE "Error saving profile"

----------------------------------------------------------------------------
(* Actions *)

Init ==
    /\ pc = "new"
    /\ gpu_monitor = None
    /\ env_detector = None
    /\ sampling_interval = 0
    /\ current_profile = None
    /\ duration = None
    /\ start_time = 0
    /\ now = 0
    /\ files = {}
    /\ run_log = <<>>
    /\ ticks = <<>>
    /\ saves = <<>>
    /\ runs = 0
    /\ apc = "new"
    /\ config = None
    /\ df = <<>>
    /\ insights = <<>>
    /\ todo = <<>>
    /\ env_calls = <<>>
    /\ earlier = <<>>
    /\ calls = [c \in {1, 2} |-> [pc |-> "idle", df |-> <<>>, todo |-> <<>>,
                                  result |-> None]]

Construct_SwallowInitError ==
    /\ pc = "new"
    /\ \E iv \in Intervals, nvml_ok \in BOOLEAN, dc \in 1..MaxDevices :
         /\ gpu_monitor' = IF nvml_ok THEN [device_count |-> dc] ELSE None
         /\ env_detector' = NewDetector
         /\ sampling_interval' = iv
         /\ current_profile' = EmptyProfile(now)
         /\ pc' = "constructed"
    /\ UNCHANGED <<duration, start_time, now, files, run_log, ticks, saves, runs>>
    /\ UNCHANGED env_calls
    /\ UNCHANGED analyzerVars

\* GPUProfiler.__init__: GPUMonitor() raises RuntimeError when NVML cannot
\* be initialised, and then no profiler object exists.
Construct ==
    /\ pc = "new"
    /\ \E iv \in Intervals, nvml_ok \in BOOLEAN, dc \in 1..MaxDevices :
         IF nvml_ok
         THEN /\ gpu_monitor' = [device_count |-> dc]
              /\ env_detector' = NewDetector
              /\ sampling_interval' = iv
              /\ current_profile' = EmptyProfile(now)
              /\ pc' = "constructed"
         ELSE /\ pc' = "init_failed"
              /\ UNCHANGED <<gpu_monitor, env_detector, sampling_interval,
                             current_profile>>
    /\ UNCHANGED <<duration, start_time, now, files, run_log, ticks, saves, runs>>
    /\ UNCHANGED env_calls
    /\ UNCHANGED analyzerVars

\* start_profiling up to the try statement.
StartProfiling ==
    /\ pc \in {"constructed", "returned"}
    /\ Len(ticks) < MaxTicks
    /\ \E d \in Durations : duration' = d
    /\ start_time' = now
    /\ run_log' = <<"Starting GPU profiling">>
    /\ saves' = <<>>
    /\ runs' = runs + 1
    /\ pc' = "collect"
    /\ UNCHANGED <<gpu_monitor, env_detector, sampling_interval,
                   current_profile, now, files, ticks>>
    /\ UNCHANGED env_calls
    /\ UNCHANGED analyzerVars

\* sample = self._collect_sample(); if sample: self.logger.info(...)
CollectSample ==
    /\ pc = "collect"
    /\ \E src \in SourceOutcomes, w \in 0..MaxWork :
         LET r == _collect_sample(current_profile, env_detector, gpu_monitor,
                                  src, HostProbe, now)
         IN  /\ current_profile' = r.profile
             /\ env_detector' = r.detector
             /\ ticks' = Append(ticks,
                   [run |-> runs,
                    began |-> now,
                    env_requested |-> EnvRequested(current_profile),
                    env_stored |-> (r.profile.environment
                                        # current_profile.environment),
                    changed |-> (r.profile # current_profile),
                    appended |-> (Len(r.profile.gpu_stats)
                                      # Len(current_profile.gpu_stats)),
                    sealed |-> (\E f \in files : f.json = "complete"),
                    acquired |-> Acquired(current_profile, gpu_monitor, src),
                    result |-> r.result])
             /\ run_log' =
                   IF r.result = "None"
                   THEN Append(run_log, "Error collecting sample")
                   ELSE IF r.result = "sample"
                        THEN Append(run_log, "Collected sample")
                        ELSE run_log
             /\ now' = now + w
             /\ pc' = IF r.result = "KeyboardInterrupt" THEN "interrupted"
                      ELSE "check"
    /\ UNCHANGED <<gpu_monitor, sampling_interval, duration, start_time,
                   files, saves, runs>>
    /\ UNCHANGED env_calls
    /\ UNCHANGED analyzerVars

DurationElapsed_Never(d, start, t) == FALSE

\* if duration and (time.time() - start_time) >= duration: break
DurationElapsed(d, start, t) == d # None /\ d[1] # 0 /\ (t - start) >= d[1]

CheckDuration ==
    /\ pc = "check"
    /\ pc' = IF DurationElapsed(duration, start_time, now) THEN "finally"
             ELSE "sleep"
    /\ UNCHANGED <<gpu_monitor, env_detector, sampling_interval,
                   current_profile, duration, start_time, now, files, run_log,
                   ticks, saves, runs>>
    /\ UNCHANGED env_calls
    /\ UNCHANGED analyzerVars

SleepUntil_NoWait(t, iv) == t

\* time.sleep(self.sampling_interval) returns no earlier than the interval.
SleepUntil(t, iv) == t + iv

\* time.sleep: ValueError for a negative interval, else the next tick.
Sleep ==
    /\ pc = "sleep"
    /\ IF sampling_interval < 0
       THEN /\ pc' = "failed"
            /\ now' = now
       ELSE /\ Len(ticks) < MaxTicks
            /\ now' = SleepUntil(now, sampling_interval)
            /\ pc' = "collect"
    /\ UNCHANGED <<gpu_monitor, env_detector, sampling_interval,
                   current_profile, duration, start_time, files, run_log,
                   ticks, saves, runs>>
    /\ UNCHANGED env_calls
    /\ UNCHANGED analyzerVars

\* KeyboardInterrupt raised while time.sleep is waiting.
SleepInterrupted ==
    /\ pc = "sleep"
    /\ sampling_interval >= 0
    /\ \E e \in 0..sampling_interval : now' = now + e
    /\ pc' = "interrupted"
    /\ UNCHANGED <<gpu_monitor, env_detector, sampling_interval,
                   current_profile, duration, start_time, files, run_log,
                   ticks, saves, runs>>
    /\ UNCHANGED env_calls
    /\ UNCHANGED analyzerVars

HandleKeyboardInterrupt_NoFinally ==
    /\ pc = "interrupted"
    /\ run_log' = Append(run_log, "Profiling interrupted by user")
    /\ pc' = "returned"
    /\ UNCHANGED <<gpu_monitor, env_detector, sampling_interval,
                   current_profile, duration, start_time, now, files, ticks,
                   saves, runs>>
    /\ UNCHANGED env_calls
    /\ UNCHANGED analyzerVars

\* except KeyboardInterrupt: log, then the finally clause.
HandleKeyboardInterrupt ==
    /\ pc = "interrupted"
    /\ run_log' = Append(run_log, "Profiling interrupted by user")
    /\ pc' = "finally"
    /\ UNCHANGED <<gpu_monitor, env_detector, sampling_interval,
                   current_profile, duration, start_time, now, files, ticks,
                   saves, runs>>
    /\ UNCHANGED env_calls
    /\ UNCHANGED analyzerVars

\* except Exception: log, then the finally clause.
HandleException ==
    /\ pc = "failed"
    /\ run_log' = Append(run_log, "Error during profiling")
    /\ pc' = "finally"
    /\ UNCHANGED <<gpu_monitor, env_detector, sampling_interval,
                   current_profile, duration, start_time, now, files, ticks,
                   saves, runs>>
    /\ UNCHANGED env_calls
    /\ UNCHANGED analyzerVars

\* finally: self._save_profile(); self.logger.info("Profiling completed")
SaveProfile ==
    /\ pc = "finally"
    /\ \E io \in IoOutcomes :
         LET outcome == SaveOutcome(current_profile, io)
         IN  /\ files' = WriteFile(files, now, outcome, current_profile)
             /\ saves' = Append(saves, [io |-> io, outcome |-> outcome,
                                        profile_before |-> current_profile])
             /\ run_log' = IF AfterSave(outcome) = "returned"
                           THEN run_log \o <<SaveLogLine(outcome),
                                             "Profiling completed">>
                           ELSE run_log
             /\ pc' = AfterSave(outcome)
    /\ UNCHANGED <<gpu_monitor, env_detector, sampling_interval,
                   current_profile, duration, start_time, now, ticks, runs>>
    /\ UNCHANGED env_calls
    /\ UNCHANGED analyzerVars

Next ==
    \/ Construct
    \/ StartProfiling
    \/ CollectSample
    \/ CheckDuration
    \/ Sleep
    \/ SleepInterrupted
    \/ HandleKeyboardInterrupt
    \/ HandleException
    \/ SaveProfile

Spec == Init /\ [][Next]_vars

----------------------------------------------------------------------------
(* Properties *)

InLoop == pc \in {"collect", "check", "sleep", "interrupted", "failed", "finally"}

Constructed == pc \notin {"new", "init_failed"}

InLog(line) == \E i \in 1..Len(run_log) : run_log[i] = line

\* The ticks of the current run, and whether tick i opens its run.
RunTicks == {i \in 1..Len(ticks) : ticks[i].run = runs}

FirstOfRun(i) == i = 1 \/ ticks[i - 1].run # ticks[i].run

ProfileEmpty ==
    /\ current_profile.environment = None
    /\ current_profile.system_info = None
    /\ current_profile.gpu_stats = <<>>

\* C1: in every run that has entered the loop, _save_profile is not attempted
\* while the loop or an except clause is still running, and it has been
\* attempted exactly once when start_profiling has returned, however the loop
\* ended.
C1_SaveAttemptedExactlyOnce ==
    /\ InLoop => Len(saves) = 0
    /\ pc = "returned" => Len(saves) = 1

C1_Witness_InterruptedRunSaved ==
    /\ pc = "returned"
    /\ Len(saves) = 1
    /\ InLog("Profiling interrupted by user")
    /\ \E i \in RunTicks : ticks[i].result = "KeyboardInterrupt"

\* C2: a run started with duration=0 (and a positive sampling interval)
\* never waits between ticks, makes at most one tick, and once returned has
\* persisted a profile that holds the environment snapshot (when the file
\* system did not fail).
C2_ZeroDurationTerminates ==
    (Constructed /\ runs > 0 /\ duration = <<0>> /\ sampling_interval > 0) =>
        /\ pc # "sleep"
        /\ Cardinality(RunTicks) <= 1
        /\ (pc = "returned" /\ Last(saves).io = "ok") =>
               \E f \in files : /\ f.json = "complete"
                                /\ f.doc.environment # None

\* C3 as stated: a tick whose acquisition raised (the except clause returned
\* None) left environment, system_info and gpu_stats as they were.
C3_FailedTickContributesNothing ==
    \A i \in 1..Len(ticks) : ticks[i].result = "None" => ~ticks[i].changed

\* C3 as amended: a tick whose acquisition raised appended no entry to
\* gpu_stats; what it changed in the profile, if anything, is the environment
\* snapshot it stored before the failing call.
C3_FailedTickAppendsNothing ==
    \A i \in 1..Len(ticks) :
        ticks[i].result = "None" =>
            /\ ~ticks[i].appended
            /\ ticks[i].changed => ticks[i].env_stored

C3_Witness_FailedTickStoredEnvironment ==
    \E i \in 1..Len(ticks) :
        /\ ticks[i].result = "None"
        /\ ticks[i].changed
        /\ ticks[i].env_stored
        /\ ~ticks[i].appended

\* C4: at finalization gpu_stats holds exactly one entry per tick whose
\* source calls all succeeded, and none for a failed tick.
C4_OneEntryPerAcquiredTick ==
    pc \in {"finally", "returned"} =>
        Len(current_profile.gpu_stats) =
            Cardinality({i \in 1..Len(ticks) : ticks[i].acquired})

\* C5 as stated: when GPUMonitor construction raises, finalization has
\* attempted to persist the profile exactly once.
C5_InitFailureFinalizes == pc = "init_failed" => Len(saves) = 1

\* C5 as amended: a loop that started is finalized with exactly one save
\* attempt; when GPUMonitor construction raises, __init__ raises, no profile
\* and no run exist, nothing is persisted, and no run ever starts without an
\* initialised monitor.
C5_InitFailureSurfaces ==
    /\ pc = "init_failed" =>
           /\ Len(saves) = 0
           /\ files = {}
           /\ current_profile = None
           /\ runs = 0
    /\ runs > 0 => gpu_monitor # None
    /\ pc = "returned" => Len(saves) = 1

C5_Witness_InitFailed == pc = "init_failed" /\ gpu_monitor = None

\* C6: after the first run of a profiler with a positive duration (and a
\* positive sampling interval), sources that did not fail and a working file
\* system, exactly one artifact exists, it parses, and its gpu_stats holds at
\* least one tick.
C6_ArtifactAfterRun ==
    ( /\ pc = "returned"
      /\ runs = 1
      /\ sampling_interval > 0
      /\ duration # None
      /\ duration[1] > 0
      /\ \A i \in RunTicks : ticks[i].acquired
      /\ ~InLog("Profiling interrupted by user")
      /\ Last(saves).io = "ok" ) =>
        /\ Cardinality(files) = 1
        /\ \A f \in files : /\ f.json = "complete"
                            /\ Len(f.doc.gpu_stats) > 0

\* C7: a tick of a run never begins before sampling_interval seconds have
\* passed since the previous tick of that run began.
C7_Pacing ==
    (pc = "collect" /\ Len(ticks) > 0 /\ Last(ticks).run = runs) =>
        now >= Last(ticks).began + sampling_interval

C7_Witness_NextTickAfterSlowFailedTick ==
    /\ pc = "collect"
    /\ Len(ticks) > 0
    /\ Last(ticks).run = runs
    /\ Last(ticks).result = "None"
    /\ sampling_interval > 0
    /\ now > Last(ticks).began + sampling_interval

\* C8: whenever a run begins the profile is empty, and no tick changes the
\* profile once a run has persisted it.
C8_EmptyAtStartSealedAfter ==
    /\ (pc = "collect" /\ RunTicks = {}) => ProfileEmpty
    /\ \A i \in 1..Len(ticks) : ticks[i].sealed => ~ticks[i].changed

\* C9 as stated: in every run the first tick, and no other, requests the
\* environment snapshot.
C9_EnvFirstTickOnly ==
    \A i \in 1..Len(ticks) : ticks[i].env_requested <=> FirstOfRun(i)

\* C9 as amended: a tick requests the environment snapshot exactly when no
\* earlier tick of the profiler has stored one, so the snapshot is stored at
\* most once and is never replaced.
C9_EnvStoredAtMostOnce ==
    /\ \A i \in 1..Len(ticks) :
          /\ ticks[i].env_requested <=>
                 \A j \in 1..(i - 1) : ~ticks[j].env_stored
          /\ ticks[i].env_stored => ticks[i].env_requested
          /\ ticks[i].env_stored =>
                 current_profile.environment.timestamp = ticks[i].began
    /\ Constructed =>
          (current_profile.environment # None <=>
               \E i \in 1..Len(ticks) : ticks[i].env_stored)

C9_Witness_RetriedThenStoredOnce ==
    /\ Len(ticks) = 2
    /\ ticks[1].env_requested /\ ~ticks[1].env_stored
    /\ ticks[2].env_requested /\ ticks[2].env_stored
    /\ ticks[1].run = ticks[2].run

\* C10: after _save_profile, start_profiling has returned normally; when the
\* save failed the error was logged and current_profile is what it was
\* before the attempt.
C10_SaveFailureSwallowed ==
    Len(saves) > 0 =>
        /\ pc = "returned"
        /\ Last(saves).outcome # "saved" =>
               /\ current_profile = Last(saves).profile_before
               /\ InLog("Error saving profile")

C10_Witness_SaveFailed ==
    /\ pc = "returned"
    /\ Len(saves) = 1
    /\ Last(saves).io = "open_fails"
    /\ Last(saves).outcome = "no_file"

\* C11: once a tick has run whose source calls all returned, the profile's
\* system_info is the host snapshot that tick read.
C11_LatestHostSnapshotKept ==
    (Len(ticks) > 0 /\ Last(ticks).acquired) =>
        current_profile.system_info = get_system_info.fields

----------------------------------------------------------------------------
(* PerformanceAnalyzer (src/src/analysis.py)                               *)
(*                                                                         *)
(* A DataFrame is the sequence of its rows; one unit of a row's timestamp  *)
(* is one second. A float the analyzer computes is the exact fraction      *)
(* [num, den], so that a maximum and a mean are told apart by value.       *)

\* _check_idle_periods: idle_threshold and min_idle_duration (5 minutes).
IdleThreshold == 10
MinIdleDuration == 300

\* _check_memory_bottlenecks: memory above 80 percent, utilization below 50.
BottleneckMemory == 80
BottleneckUtilization == 50

Rat(n, d) == [num |-> n, den |-> d]

\* The default thresholds of the analyze command (config['alerts']['gpu']).
DefaultConfig ==
    [utilization |-> [warning |-> 90, critical |-> 95],
     memory      |-> [warning |-> 85, critical |-> 90],
     temperature |-> [warning |-> 80, critical |-> 85],
     power       |-> [warning |-> 90, critical |-> 95]]

MetricNames == {"utilization", "memory", "temperature", "power"}

\* A config dict that lacks the thresholds of one metric: the lookup
\* self.config['alerts']['gpu'][metric][...] raises KeyError.
Lacking(m) == [DefaultConfig EXCEPT ![m] = None]

\* PerformanceInsight; message is f"GPU {gpu_id} {text}", and window holds
\* the (start, end) that the idle suggestion text spells out.
PerformanceInsight(ts, sev, gpu_id, text, metric, value, threshold, window) ==
    [timestamp |-> ts, severity |-> sev, gpu_id |-> gpu_id, message |-> text,
     metric |-> metric, value |-> value, threshold |-> threshold,
     window |-> window]

\* What a check did: the insights it appended to self.insights, and whether
\* it raised.
Appended(ins) == [raised |-> FALSE, insights |-> ins]
KeyError == [raised |-> TRUE, insights |-> <<>>]

MemoryPct_Capped(row) ==
    IF row.memory_used > row.memory_total THEN 100
    ELSE (row.memory_used * 100) \div row.memory_total

\* (gpu_data['memory_used'] / gpu_data['memory_total']) * 100
MemoryPct(row) == (row.memory_used * 100) \div row.memory_total

\* The column the threshold check of metric m reads: gpu_data[m], or
\* memory_pct for the memory check.
ValueOf(m, row) ==
    CASE m = "utilization" -> row.utilization
      [] m = "memory"      -> MemoryPct(row)
      [] m = "temperature" -> row.temperature
      [] m = "power"       -> row.power_usage

MaxValue_Least(rows, m) ==
    CHOOSE v \in {ValueOf(m, rows[i]) : i \in 1..Len(rows)} :
        \A j \in 1..Len(rows) : ValueOf(m, rows[j]) >= v

\* high['utilization'].max()
MaxValue(rows, m) ==
    CHOOSE v \in {ValueOf(m, rows[i]) : i \in 1..Len(rows)} :
        \A j \in 1..Len(rows) : ValueOf(m, rows[j]) <= v

Above_Inclusive(v, warning_threshold) == v >= warning_threshold

\* gpu_data[column > warning_threshold]
Above(v, warning_threshold) == v > warning_threshold

IsCritical_Strict(max, critical_threshold) == max > critical_threshold

\* if max >= critical_threshold
IsCritical(max, critical_threshold) == max >= critical_threshold

ThresholdInsights_PerSample(high, gpu_id, metric, th, text) ==
    [i \in 1..Len(high) |->
        IF IsCritical(ValueOf(metric, high[i]), th.critical)
        THEN PerformanceInsight(high[i].timestamp, "critical", gpu_id,
                                <<text, "critically high">>, metric,
                                Rat(ValueOf(metric, high[i]), 1), th.critical, <<>>)
        ELSE PerformanceInsight(high[i].timestamp, "warning", gpu_id,
                                <<text, "high">>, metric,
                                Rat(ValueOf(metric, high[i]), 1), th.warning, <<>>)]

ThresholdInsights_AnchorAtMax(high, gpu_id, metric, th, text) ==
    IF high = <<>> THEN <<>>
    ELSE LET max == MaxValue(high, metric)
             at == CHOOSE i \in 1..Len(high) :
                       /\ ValueOf(metric, high[i]) = max
                       /\ \A j \in 1..(i - 1) : ValueOf(metric, high[j]) < max
         IN  IF IsCritical(max, th.critical)
             THEN <<PerformanceInsight(high[at].timestamp, "critical",
                                       gpu_id, <<text, "critically high">>,
                                       metric, Rat(max, 1), th.critical, <<>>)>>
             ELSE <<PerformanceInsight(high[at].timestamp, "warning",
                                       gpu_id, <<text, "high">>,
                                       metric, Rat(max, 1), th.warning, <<>>)>>

\* The body the four threshold checks share once the samples above the
\* warning threshold are selected: one insight, for their maximum.
ThresholdInsights(high, gpu_id, metric, th, text) ==
    IF high = <<>> THEN <<>>
    ELSE LET max == MaxValue(high, metric)
         IN  IF IsCritical(max, th.critical)
             THEN <<PerformanceInsight(Last(high).timestamp, "critical",
                                       gpu_id, <<text, "critically high">>,
                                       metric, Rat(max, 1), th.critical, <<>>)>>
             ELSE <<PerformanceInsight(Last(high).timestamp, "warning",
                                       gpu_id, <<text, "high">>,
                                       metric, Rat(max, 1), th.warning, <<>>)>>

ThresholdCheck(cfg, gpu_data, gpu_id, metric, text) ==
    IF cfg[metric] = None THEN KeyError
    ELSE Appended(ThresholdInsights(
             SelectSeq(gpu_data, LAMBDA r : Above(ValueOf(metric, r),
                                            cfg[metric].warning)),
             gpu_id, metric, cfg[metric], text))

_check_utilization(cfg, gpu_data, gpu_id) ==
    ThresholdCheck(cfg, gpu_data, gpu_id, "utilization", "utilization")

_check_memory_usage(cfg, gpu_data, gpu_id) ==
    ThresholdCheck(cfg, gpu_data, gpu_id, "memory", "memory usage")

_check_temperature(cfg, gpu_data, gpu_id) ==
    ThresholdCheck(cfg, gpu_data, gpu_id, "temperature", "temperature")

_check_power_usage(cfg, gpu_data, gpu_id) ==
    ThresholdCheck(cfg, gpu_data, gpu_id, "power", "power usage")

LongEnough_Strict(d) == d > MinIdleDuration

\* if duration >= min_idle_duration
LongEnough(d) == d >= MinIdleDuration

\* The loop over gpu_data.iterrows() from row i on, then the check of the
\* period still open after the last row. current_period is None or <<start>>.
RECURSIVE IdleScan(_, _, _, _)
IdleScan(rows, i, current_period, idle_periods) ==
    IF i > Len(rows)
    THEN IF current_period # None
            /\ LongEnough(Last(rows).timestamp - current_period[1])
         THEN Append(idle_periods, <<current_period[1], Last(rows).timestamp>>)
         ELSE idle_periods
    ELSE IF rows[i].utilization < IdleThreshold
         THEN IdleScan(rows, i + 1,
                       IF current_period = None THEN <<rows[i].timestamp>>
                       ELSE current_period,
                       idle_periods)
         ELSE IF current_period # None
              THEN IdleScan(rows, i + 1, None,
                            IF LongEnough(rows[i].timestamp - current_period[1])
                            THEN Append(idle_periods,
                                        <<current_period[1], rows[i].timestamp>>)
                            ELSE idle_periods)
              ELSE IdleScan(rows, i + 1, None, idle_periods)

IdleInsight(period, gpu_id) ==
    PerformanceInsight(period[2], "info", gpu_id, <<"idle period detected">>,
                       "utilization", Rat(IdleThreshold, 1), IdleThreshold,
                       period)

_check_idle_periods_WindowToLastRow(gpu_data, gpu_id) ==
    LET idle_periods == IdleScan(gpu_data, 1, None, <<>>)
    IN  Appended([k \in 1..Len(idle_periods) |->
            IdleInsight(<<idle_periods[k][1], Last(gpu_data).timestamp>>,
                        gpu_id)])

_check_idle_periods_FirstOnly(gpu_data, gpu_id) ==
    LET idle_periods == IdleScan(gpu_data, 1, None, <<>>)
    IN  Appended(IF idle_periods = <<>> THEN <<>>
                 ELSE <<IdleInsight(idle_periods[1], gpu_id)>>)

\* for start, end in idle_periods: self.insights.append(...)
_check_idle_periods(gpu_data, gpu_id) ==
    LET idle_periods == IdleScan(gpu_data, 1, None, <<>>)
    IN  Appended([k \in 1..Len(idle_periods) |->
            IdleInsight(idle_periods[k], gpu_id)])

RECURSIVE SumOf(_)
SumOf(values) ==
    IF values = <<>> THEN 0 ELSE Head(values) + SumOf(Tail(values))

\* memory_pct[rows.index]
MemoryPctOf(rows) == [i \in 1..Len(rows) |-> MemoryPct(rows[i])]

Bottlenecks_AnyUtilization(gpu_data) ==
    SelectSeq(gpu_data, LAMBDA r : MemoryPct(r) > BottleneckMemory)

\* gpu_data[(memory_pct > 80) & (gpu_data['utilization'] < 50)]
Bottlenecks(gpu_data) ==
    SelectSeq(gpu_data, LAMBDA r : /\ MemoryPct(r) > BottleneckMemory
                                   /\ r.utilization < BottleneckUtilization)

_check_memory_bottlenecks(gpu_data, gpu_id) ==
    LET potential_bottlenecks == Bottlenecks(gpu_data)
    IN  IF potential_bottlenecks = <<>> THEN Appended(<<>>)
        ELSE Appended(<<PerformanceInsight(
                 Last(potential_bottlenecks).timestamp, "warning", gpu_id,
                 <<"potential memory bottleneck detected">>,
                 "memory_utilization_ratio",
                 Rat(SumOf(MemoryPctOf(potential_bottlenecks)),
                     Len(potential_bottlenecks)),
                 BottleneckMemory, <<>>)>>)

\* One call after another: a check that raises ends _analyze_gpu, and what
\* the checks before it appended stays in self.insights.
AndThen(done, check) ==
    IF done.raised THEN done
    ELSE [raised |-> check.raised, insights |-> done.insights \o check.insights]

_analyze_gpu_IdleFirst(cfg, gpu_data, gpu_id) ==
    AndThen(AndThen(AndThen(AndThen(AndThen(
        _check_idle_periods(gpu_data, gpu_id),
        _check_utilization(cfg, gpu_data, gpu_id)),
        _check_memory_usage(cfg, gpu_data, gpu_id)),
        _check_temperature(cfg, gpu_data, gpu_id)),
        _check_power_usage(cfg, gpu_data, gpu_id)),
        _check_memory_bottlenecks(gpu_data, gpu_id))

_analyze_gpu(cfg, gpu_data, gpu_id) ==
    AndThen(AndThen(AndThen(AndThen(AndThen(
        _check_utilization(cfg, gpu_data, gpu_id),
        _check_memory_usage(cfg, gpu_data, gpu_id)),
        _check_temperature(cfg, gpu_data, gpu_id)),
        _check_power_usage(cfg, gpu_data, gpu_id)),
        _check_idle_periods(gpu_data, gpu_id)),
        _check_memory_bottlenecks(gpu_data, gpu_id))

\* df['device_id'].unique(): the ids in order of first appearance.
RECURSIVE Unique(_)
Unique(ids) ==
    IF ids = <<>> THEN <<>>
    ELSE <<Head(ids)>> \o Unique(SelectSeq(Tail(ids), LAMBDA x : x # Head(ids)))

DeviceIdColumn(frame) == [i \in 1..Len(frame) |-> frame[i].device_id]

GpuData_WholeFrame(frame, gpu_id) == frame

\* df[df['device_id'] == gpu_id]
GpuData(frame, gpu_id) == SelectSeq(frame, LAMBDA r : r.device_id = gpu_id)

----------------------------------------------------------------------------
(* The caller of the analyzer (the analyze command of src/src/cli.py) *)

\* One GPUStats dict of a stored profile, less its timestamp and device.
Sample(u, used, t, p) ==
    [utilization |-> u, memory_used |-> used, memory_total |-> 200,
     temperature |-> t, power_usage |-> p]

Row(ts, gpu_id, k) ==
    [timestamp |-> ts, device_id |-> gpu_id, utilization |-> k.utilization,
     memory_used |-> k.memory_used, memory_total |-> k.memory_total,
     temperature |-> k.temperature, power_usage |-> k.power_usage]

Busy == Sample(60, 100, 70, 50)
Idle == Sample(5, 100, 70, 50)

\* Samples on each side of every threshold of DefaultConfig and of the
\* bottleneck check: utilization 92 and 95, memory 85, 86 and 90 percent,
\* temperature 82 and 85, power 92 and 95.
MetricSamples ==
    {Busy, Idle,
     Sample(92, 100, 70, 50), Sample(95, 100, 70, 50),
     Sample(30, 170, 70, 50), Sample(30, 172, 70, 50),
     Sample(60, 180, 70, 50),
     Sample(60, 100, 82, 95), Sample(60, 100, 85, 92)}

IdleSamples == {Busy, Idle, Sample(95, 100, 70, 50)}

Hot == Sample(96, 190, 85, 95)

DeviceIds == {0, 1}

\* Seconds between two rows: the five-minute period of a slow sampler, and
\* the gaps that put a dip one second below and exactly at five minutes.
SlowGaps == {MinIdleDuration}
DipGaps == {1, MinIdleDuration - 1, MinIdleDuration}

\* Stored profiles of one device sampled once a minute.
\* Ten samples of utilization 96.
TenAt96 == [i \in 1..10 |-> Row((i - 1) * 60, 0, Sample(96, 100, 70, 50))]

\* Three samples of memory 85 percent (86 percent) and utilization 30.
ThreeAt85 == [i \in 1..3 |-> Row((i - 1) * 60, 0, Sample(30, 170, 70, 50))]
ThreeAt86 == [i \in 1..3 |-> Row((i - 1) * 60, 0, Sample(30, 172, 70, 50))]

\* Thirty minutes, one sample a minute, idle from minute 10 until the sample
\* of minute 16 shows the device busy again.
SixIdleInThirty ==
    [i \in 1..30 |-> Row((i - 1) * 60, 0, IF i \in 11..16 THEN Idle ELSE Busy)]

StoredProfiles == {TenAt96, ThreeAt85, ThreeAt86}

Configs == {DefaultConfig} \cup {Lacking(m) : m \in MetricNames}

\* for gpu in sample: gpu_stats.append(gpu): the frame grows by one row,
\* later than the rows before it.
AppendRow(samples, devices, gaps, max) ==
    /\ apc = "new"
    /\ Len(df) < max
    /\ \E k \in samples, g \in devices, gap \in gaps :
         df' = Append(df, Row(IF df = <<>> THEN 0
                              ELSE Last(df).timestamp + gap, g, k))
    /\ UNCHANGED <<apc, config, insights, todo>>
    /\ UNCHANGED callVars
    /\ UNCHANGED samplerVars

\* data = json.load(f); df = pd.DataFrame(gpu_stats): a whole stored profile.
LoadProfile(profiles) ==
    /\ apc = "new"
    /\ df = <<>>
    /\ \E stored \in profiles : df' = stored
    /\ UNCHANGED <<apc, config, insights, todo>>
    /\ UNCHANGED callVars
    /\ UNCHANGED samplerVars

\* PerformanceAnalyzer.__init__
NewAnalyzer(configs) ==
    /\ apc = "new"
    /\ \E cfg \in configs : config' = cfg
    /\ insights' = <<>>
    /\ apc' = "ready"
    /\ UNCHANGED <<df, todo>>
    /\ UNCHANGED callVars
    /\ UNCHANGED samplerVars

ResetInsights_Keep(old) == old

\* self.insights = []
ResetInsights(old) == <<>>

\* The columns of pd.DataFrame(gpu_stats) are the keys of the dicts in the
\* list: a frame made from an empty list has no column at all.
Columns(frame) ==
    IF frame = <<>> THEN {}
    ELSE {"timestamp", "device_id", "utilization", "memory_used",
          "memory_total", "temperature", "power_usage"}

\* analyze_profile up to its loop: self.insights = [], then
\* df['device_id'].unique(), which raises KeyError for a missing column.
AnalyzeProfile ==
    /\ apc \in {"ready", "returned", "raised"}
    /\ insights' = ResetInsights(insights)
    /\ IF "device_id" \in Columns(df)
       THEN /\ todo' = Unique(DeviceIdColumn(df))
            /\ apc' = "analyzing"
       ELSE /\ todo' = <<>>
            /\ apc' = "raised"
    /\ UNCHANGED <<config, df>>
    /\ UNCHANGED callVars
    /\ UNCHANGED samplerVars

\* One pass of the loop: self._analyze_gpu(gpu_data, gpu_id). An exception
\* of a check leaves analyze_profile with self.insights as it is by then.
AnalyzeGpu ==
    /\ apc = "analyzing"
    /\ todo # <<>>
    /\ LET gpu_id == Head(todo)
           done == _analyze_gpu(config, GpuData(df, gpu_id), gpu_id)
       IN  /\ insights' = insights \o done.insights
           /\ IF done.raised
              THEN apc' = "raised" /\ todo' = todo
              ELSE apc' = apc /\ todo' = Tail(todo)
    /\ UNCHANGED <<config, df>>
    /\ UNCHANGED callVars
    /\ UNCHANGED samplerVars

\* return self.insights
ReturnInsights ==
    /\ apc = "analyzing"
    /\ todo = <<>>
    /\ apc' = "returned"
    /\ UNCHANGED <<config, df, insights, todo>>
    /\ UNCHANGED callVars
    /\ UNCHANGED samplerVars

\* The analyzer on frames whose samples lie around the thresholds.
NextThreshold ==
    \/ AppendRow(MetricSamples, DeviceIds, SlowGaps, MaxRows)
    \/ LoadProfile(StoredProfiles)
    \/ NewAnalyzer({DefaultConfig})
    \/ AnalyzeProfile
    \/ AnalyzeGpu
    \/ ReturnInsights

SpecThreshold == Init /\ [][NextThreshold]_vars

\* The analyzer on frames of one device that dips below the idle threshold.
NextIdle ==
    \/ AppendRow(IdleSamples, {0}, DipGaps, MaxIdleRows)
    \/ LoadProfile({SixIdleInThirty})
    \/ NewAnalyzer({DefaultConfig})
    \/ AnalyzeProfile
    \/ AnalyzeGpu
    \/ ReturnInsights

SpecIdle == Init /\ [][NextIdle]_vars

\* The analyzer constructed from a config that may lack a metric.
NextConfig ==
    \/ AppendRow({Busy, Hot}, DeviceIds, SlowGaps, MaxRows)
    \/ NewAnalyzer(Configs)
    \/ AnalyzeProfile
    \/ AnalyzeGpu
    \/ ReturnInsights

SpecConfig == Init /\ [][NextConfig]_vars

\* The analyzer on frames of two devices whose samples trip several checks
\* at once.
OrderSamples == {Busy, Idle, Hot, Sample(30, 172, 70, 50)}

NextOrder ==
    \/ AppendRow(OrderSamples, DeviceIds, SlowGaps, MaxOrderRows)
    \/ NewAnalyzer({DefaultConfig})
    \/ AnalyzeProfile
    \/ AnalyzeGpu
    \/ ReturnInsights

SpecOrder == Init /\ [][NextOrder]_vars

\* The analyzer on frames of a device that reports more memory used than
\* it has: 240 of 200.
OverfullSamples ==
    {Busy, Sample(30, 172, 70, 50), Sample(30, 240, 70, 50),
     Sample(60, 240, 70, 50)}

NextOverfull ==
    \/ AppendRow(OverfullSamples, {0}, SlowGaps, MaxRows)
    \/ NewAnalyzer({DefaultConfig})
    \/ AnalyzeProfile
    \/ AnalyzeGpu
    \/ ReturnInsights

SpecOverfull == Init /\ [][NextOverfull]_vars

\* The frames of one to max rows, five minutes apart.
Frames(samples, devices, max) ==
    UNION {{[i \in 1..n |-> Row((i - 1) * MinIdleDuration, f[i][1], f[i][2])] :
            f \in [1..n -> devices \X samples]} : n \in 1..max}

\* analyze_profile as a function of the configuration and its argument: the
\* insights of the devices of the frame, one device after the other.
RECURSIVE AnalyzeDevices(_, _, _)
AnalyzeDevices(cfg, frame, ids) ==
    IF ids = <<>> THEN <<>>
    ELSE LET done == _analyze_gpu(cfg, GpuData(frame, Head(ids)), Head(ids))
         IN  IF done.raised THEN done.insights
             ELSE done.insights \o AnalyzeDevices(cfg, frame, Tail(ids))

analyze_profile(cfg, frame) ==
    AnalyzeDevices(cfg, frame, Unique(DeviceIdColumn(frame)))

\* Two threads that call analyze_profile on the same PerformanceAnalyzer.
Threads == {1, 2}

\* The list a returned call holds: the list self.insights still refers to, or
\* the list it referred to until a later call bound self.insights to a new
\* one.
ResultOf(c) ==
    IF calls[c].result.alias THEN insights ELSE calls[c].result.value

\* self.insights = [] of a call leaves the results returned so far with the
\* list they were given.
Rebound(call) ==
    IF call.pc = "returned" /\ call.result.alias
    THEN [call EXCEPT !.result = [alias |-> FALSE, value |-> insights]]
    ELSE call

\* analyze_profile of thread c up to its loop.
ThreadAnalyzeProfile(c, frames) ==
    /\ apc = "ready"
    /\ calls[c].pc = "idle"
    /\ \E frame \in frames :
         calls' = [o \in Threads |->
                     IF o = c
                     THEN [pc |-> "analyzing", df |-> frame,
                           todo |-> Unique(DeviceIdColumn(frame)),
                           result |-> None]
                     ELSE Rebound(calls[o])]
    /\ insights' = ResetInsights(insights)
    /\ UNCHANGED <<apc, config, df, todo, earlier>>
    /\ UNCHANGED samplerVars

\* One pass of the loop of thread c: the insights of the device are appended
\* to the list self.insights refers to at that time.
ThreadAnalyzeGpu(c) ==
    /\ calls[c].pc = "analyzing"
    /\ calls[c].todo # <<>>
    /\ LET gpu_id == Head(calls[c].todo)
           done == _analyze_gpu(config, GpuData(calls[c].df, gpu_id), gpu_id)
       IN  /\ insights' = insights \o done.insights
           /\ calls' = [calls EXCEPT
                          ![c].pc = IF done.raised THEN "raised" ELSE @,
                          ![c].todo = IF done.raised THEN @ ELSE Tail(@)]
    /\ UNCHANGED <<apc, config, df, todo, earlier>>
    /\ UNCHANGED samplerVars

\* return self.insights of thread c: the list itself, not a copy of it.
ThreadReturn(c) ==
    /\ calls[c].pc = "analyzing"
    /\ calls[c].todo = <<>>
    /\ calls' = [calls EXCEPT ![c].pc = "returned",
                              ![c].result = [alias |-> TRUE, value |-> <<>>]]
    /\ UNCHANGED <<apc, config, df, insights, todo, earlier>>
    /\ UNCHANGED samplerVars

NextInterleave ==
    \/ NewAnalyzer({DefaultConfig})
    \/ \E c \in Threads :
         ThreadAnalyzeProfile(c, Frames({Busy, Hot}, DeviceIds, MaxCallRows))
    \/ \E c \in Threads : ThreadAnalyzeGpu(c)
    \/ \E c \in Threads : ThreadReturn(c)

SpecInterleave == Init /\ [][NextInterleave]_vars

\* The frames of a later call: the same frame again, the frame less the rows
\* of the other devices, and the frame with the rows of the other devices
\* showing those devices hot.
LaterFrames(frame) ==
    {frame}
    \cup {SelectSeq(frame, LAMBDA r : r.device_id = d) : d \in DeviceIds}
    \cup {[i \in 1..Len(frame) |->
              IF frame[i].device_id = d THEN frame[i]
              ELSE Row(frame[i].timestamp, frame[i].device_id, Hot)] :
          d \in DeviceIds}

\* A call of analyze_profile, up to its loop, on an analyzer that has made
\* none yet (the first call, and a later call on a fresh analyzer, whose
\* __init__ has set self.insights = []), or on the analyzer of the call
\* before; the frame of a later call is one of LaterFrames.
CallAnalyzeProfile ==
    /\ apc \in {"ready", "returned"}
    /\ Len(earlier) < MaxCalls
    /\ \E fresh \in BOOLEAN,
          frame \in IF apc = "ready" THEN {df} ELSE LaterFrames(df) :
         /\ "device_id" \in Columns(frame)
         /\ apc = "ready" => fresh
         /\ df' = frame
         /\ insights' = ResetInsights(IF fresh THEN <<>> ELSE insights)
         /\ todo' = Unique(DeviceIdColumn(frame))
         /\ earlier' = Append(earlier, [given |-> frame, fresh |-> fresh,
                                        returned |-> FALSE, left |-> <<>>,
                                        result |-> <<>>])
    /\ apc' = "analyzing"
    /\ UNCHANGED <<config, calls>>
    /\ UNCHANGED samplerVars

\* One pass of the loop of that call.
CallAnalyzeGpu ==
    /\ earlier # <<>>
    /\ AnalyzeGpu

\* return self.insights of that call, the caller keeping the frame it gave
\* and the list it got.
CallReturn ==
    /\ apc = "analyzing"
    /\ todo = <<>>
    /\ earlier # <<>>
    /\ apc' = "returned"
    /\ earlier' = [earlier EXCEPT ![Len(earlier)] =
                       [@ EXCEPT !.returned = TRUE, !.left = df,
                                 !.result = insights]]
    /\ UNCHANGED <<config, df, insights, todo, calls>>
    /\ UNCHANGED samplerVars

\* The analyzer called again and again.
NextRepeat ==
    \/ AppendRow({Busy, Idle, Hot}, DeviceIds, SlowGaps, MaxCallRows)
    \/ NewAnalyzer({DefaultConfig})
    \/ CallAnalyzeProfile
    \/ CallAnalyzeGpu
    \/ CallReturn

SpecRepeat == Init /\ [][NextRepeat]_vars

----------------------------------------------------------------------------
(* An EnvironmentDetector called again and again (src/src/utils/env.py) *)

\* What _detect_container and _detect_vm return at one call; the files they
\* read may differ from one call to the next.
Probes ==
    [container_type : {"None", "Docker", "LXC"},
     hypervisor : {"None", "VMware", "KVM", "Xen"}]

\* EnvironmentDetector.__init__
NewEnvironmentDetector ==
    /\ env_detector = None
    /\ env_detector' = NewDetector
    /\ UNCHANGED <<pc, gpu_monitor, sampling_interval, current_profile,
                   duration, start_time, now, files, run_log, ticks, saves,
                   runs, env_calls>>
    /\ UNCHANGED analyzerVars

\* get_environment_info, returning its EnvironmentInfo.
GetEnvironmentInfo ==
    /\ env_detector # None
    /\ Len(env_calls) < MaxEnvCalls
    /\ \E probe \in Probes :
         LET det == DetectEnvironment(env_detector, probe)
         IN  /\ env_detector' = det
             /\ env_calls' =
                    Append(env_calls,
                           [probe |-> probe, returned |-> TRUE,
                            info |-> get_environment_info(det, now).fields])
    /\ UNCHANGED <<pc, gpu_monitor, sampling_interval, current_profile,
                   duration, start_time, now, files, run_log, ticks, saves,
                   runs>>
    /\ UNCHANGED analyzerVars

\* get_environment_info left by a KeyboardInterrupt in the middle of its
\* assignments.
GetEnvironmentInfoInterrupted ==
    /\ env_detector # None
    /\ Len(env_calls) < MaxEnvCalls
    /\ \E probe \in Probes :
         /\ env_detector' = DetectEnvironmentInterrupted(env_detector, probe)
         /\ env_calls' = Append(env_calls, [probe |-> probe,
                                            returned |-> FALSE, info |-> None])
    /\ UNCHANGED <<pc, gpu_monitor, sampling_interval, current_profile,
                   duration, start_time, now, files, run_log, ticks, saves,
                   runs>>
    /\ UNCHANGED analyzerVars

NextDetector ==
    \/ NewEnvironmentDetector
    \/ GetEnvironmentInfo
    \/ GetEnvironmentInfoInterrupted

SpecDetector == Init /\ [][NextDetector]_vars

----------------------------------------------------------------------------
(* Properties of the analyzer *)

RowsOf(g) == {i \in 1..Len(df) : df[i].device_id = g}

RowsAbove(g, m) ==
    {i \in RowsOf(g) : ValueOf(m, df[i]) > config[m].warning}

Largest(S) == CHOOSE v \in S : \A w \in S : w <= v

MaxObserved(g, m, rows) == Largest({ValueOf(m, df[i]) : i \in rows})

InsightsFor(g, m) ==
    SelectSeq(insights, LAMBDA x : x.gpu_id = g /\ x.metric = m)

\* The warning and critical insights, as opposed to the info insights.
AlertsFor(g, m) ==
    SelectSeq(insights,
              LAMBDA x : x.gpu_id = g /\ x.metric = m /\ x.severity # "info")

\* C12 as stated: for every device and each of the four metrics the insights
\* hold at most one insight of that metric for that device.
C12_AtMostOneInsightPerMetric ==
    \A g \in DeviceIds, m \in MetricNames : Len(InsightsFor(g, m)) <= 1

\* C12: for every device and each of the four metrics the insights hold at
\* most one warning-or-critical insight of that metric for that device,
\* however many samples lie above the warning threshold; the info insights
\* of idle detection, which carry metric utilization too, are not counted.
C12_AtMostOneAlertPerMetric ==
    \A g \in DeviceIds, m \in MetricNames : Len(AlertsFor(g, m)) <= 1

C12_Witness_TwoSamplesAboveOneAlert ==
    /\ apc = "returned"
    /\ \E g \in DeviceIds :
         /\ Cardinality(RowsAbove(g, "utilization")) >= 2
         /\ Len(AlertsFor(g, "utilization")) = 1

\* C13: for every device and metric, when the maximum observed value is at
\* or above the critical threshold every warning-or-critical insight of that
\* metric for that device is critical, and the insights never hold both a
\* warning and a critical insight of one metric for one device.
C13_SeverityMonotonic ==
    apc # "new" =>
        \A g \in DeviceIds, m \in MetricNames :
            LET alerts == AlertsFor(g, m)
            IN  /\ (/\ RowsOf(g) # {}
                    /\ MaxObserved(g, m, RowsOf(g)) >= config[m].critical)
                       => \A k \in 1..Len(alerts) :
                              alerts[k].severity = "critical"
                /\ ~ \E j, k \in 1..Len(alerts) :
                       /\ alerts[j].severity = "warning"
                       /\ alerts[k].severity = "critical"

C13_Witness_WarningSampleThenCriticalSample ==
    /\ apc = "returned"
    /\ \E g \in DeviceIds :
         /\ \E i, j \in RowsOf(g) :
              /\ i < j
              /\ df[i].utilization > config["utilization"].warning
              /\ df[i].utilization < config["utilization"].critical
              /\ df[j].utilization = config["utilization"].critical
         /\ Len(AlertsFor(g, "utilization")) = 1
         /\ AlertsFor(g, "utilization")[1].severity = "critical"

\* C14: when analyze_profile has returned, for every device and metric with
\* thresholds W and C: no warning-or-critical insight when no sample is
\* strictly greater than W; otherwise exactly one, whose value is the maximum
\* of the samples above W, critical with threshold C when that maximum is
\* >= C, warning with threshold W otherwise. Ten samples of utilization 96
\* give one critical insight of value 96 and threshold 95, and nothing else.
C14_ThresholdCheck ==
    apc = "returned" =>
        /\ \A g \in DeviceIds, m \in MetricNames :
             LET alerts == AlertsFor(g, m)
                 above == RowsAbove(g, m)
                 max == MaxObserved(g, m, above)
             IN  IF above = {} THEN alerts = <<>>
                 ELSE /\ Len(alerts) = 1
                      /\ alerts[1].value = Rat(max, 1)
                      /\ IF max >= config[m].critical
                         THEN /\ alerts[1].severity = "critical"
                              /\ alerts[1].threshold = config[m].critical
                         ELSE /\ alerts[1].severity = "warning"
                              /\ alerts[1].threshold = config[m].warning
        /\ df = TenAt96 =>
             /\ Len(insights) = 1
             /\ insights[1].severity = "critical"
             /\ insights[1].metric = "utilization"
             /\ insights[1].value = Rat(96, 1)
             /\ insights[1].threshold = 95

C14_Witness_TenSamplesAt96 ==
    /\ apc = "returned"
    /\ df = TenAt96
    /\ Len(insights) = 1

\* The rows of device g, and its maximal idle runs: the pairs <<a, b>> of row
\* numbers such that rows a..b are below the idle threshold and neither the
\* row before a nor the row after b is.
FrameOf(g) == GpuData(df, g)

IdleAt(rows, i) == rows[i].utilization < IdleThreshold

MaximalIdleRuns(rows) ==
    {run \in (1..Len(rows)) \X (1..Len(rows)) :
        /\ run[1] <= run[2]
        /\ \A i \in run[1]..run[2] : IdleAt(rows, i)
        /\ run[1] = 1 \/ ~IdleAt(rows, run[1] - 1)
        /\ run[2] = Len(rows) \/ ~IdleAt(rows, run[2] + 1)}

OpenRun(rows, run) == run[2] = Len(rows)

\* A run starts at its first idle sample and ends at the sample that shows
\* the utilization back at or above the threshold, or at the last sample of
\* the series when none does.
RunStart(rows, run) == rows[run[1]].timestamp

RunEnd(rows, run) ==
    IF OpenRun(rows, run) THEN Last(rows).timestamp
    ELSE rows[run[2] + 1].timestamp

RunDuration(rows, run) == RunEnd(rows, run) - RunStart(rows, run)

QualifyingRuns(rows) ==
    {run \in MaximalIdleRuns(rows) : RunDuration(rows, run) >= MinIdleDuration}

IdleInsights(g) ==
    SelectSeq(insights, LAMBDA x : x.gpu_id = g /\ x.severity = "info")

\* C15: when analyze_profile has returned for a device whose series has one
\* dip below the idle threshold, a dip of 4m59s gives no idle insight and a
\* dip of 5m00s or more gives exactly one, whether busy samples follow the
\* dip or the series ends in it.
C15_IdleMinimumDuration ==
    apc = "returned" =>
        \A g \in DeviceIds :
            LET rows == FrameOf(g)
                dips == MaximalIdleRuns(rows)
            IN  \A dip \in dips :
                    dips = {dip} =>
                        /\ RunDuration(rows, dip) = MinIdleDuration - 1
                               => Len(IdleInsights(g)) = 0
                        /\ RunDuration(rows, dip) >= MinIdleDuration
                               => Len(IdleInsights(g)) = 1

C15_Witness_DipOfFiveMinutesThenBusy ==
    /\ apc = "returned"
    /\ LET rows == FrameOf(0)
       IN  /\ \E dip \in MaximalIdleRuns(rows) :
                /\ MaximalIdleRuns(rows) = {dip}
                /\ ~OpenRun(rows, dip)
                /\ RunDuration(rows, dip) = MinIdleDuration
           /\ Len(IdleInsights(0)) = 1

\* C16: when analyze_profile has returned for a device that was idle for one
\* span of at least five minutes between busy samples, there is exactly one
\* info insight and its window is the start and the end of that span; the
\* six idle minutes inside thirty give the window from minute 10 to minute 16
\* and no other insight.
C16_IdleWindow ==
    apc = "returned" =>
        /\ \A g \in DeviceIds :
             LET rows == FrameOf(g)
                 spans == MaximalIdleRuns(rows)
             IN  \A span \in spans :
                     (/\ spans = {span}
                      /\ span[1] > 1
                      /\ ~OpenRun(rows, span)
                      /\ RunDuration(rows, span) >= MinIdleDuration)
                     => /\ Len(IdleInsights(g)) = 1
                        /\ IdleInsights(g)[1].window =
                               <<RunStart(rows, span), RunEnd(rows, span)>>
        /\ df = SixIdleInThirty =>
             /\ Len(insights) = 1
             /\ insights[1].severity = "info"
             /\ insights[1].window = <<10 * 60, 16 * 60>>

C16_Witness_SixIdleMinutesInThirty ==
    /\ apc = "returned"
    /\ df = SixIdleInThirty
    /\ Len(insights) = 1

\* C17: when analyze_profile has returned, the info insights of a device are
\* exactly its maximal idle runs of at least five minutes, one insight per
\* run in the order of the runs, each with its run's window and anchored at
\* its run's end, which is the last timestamp of the series for a run still
\* open there; shorter runs give none.
C17_OneInsightPerIdleRun ==
    apc = "returned" =>
        \A g \in DeviceIds :
            LET rows == FrameOf(g)
                long == QualifyingRuns(rows)
                info == IdleInsights(g)
            IN  /\ Len(info) = Cardinality(long)
                /\ \A k \in 1..Len(info) :
                     \E run \in long :
                        /\ Cardinality({r \in long : r[1] < run[1]}) = k - 1
                        /\ info[k].window =
                               <<RunStart(rows, run), RunEnd(rows, run)>>
                        /\ info[k].timestamp = RunEnd(rows, run)
                        /\ OpenRun(rows, run)
                               => info[k].timestamp = Last(rows).timestamp

C17_Witness_TwoRunsSecondOpen ==
    /\ apc = "returned"
    /\ LET rows == FrameOf(0)
       IN  /\ Cardinality(QualifyingRuns(rows)) = 2
           /\ \E run \in QualifyingRuns(rows) : OpenRun(rows, run)
           /\ Len(IdleInsights(0)) = 2

BottleneckInsights(g) == InsightsFor(g, "memory_utilization_ratio")

\* C18 as stated: three samples of memory 85 percent and utilization 30,
\* with memory thresholds 85 and 90, give a memory warning insight and a
\* bottleneck warning insight.
C18_MemoryWarningAndBottleneck ==
    (apc = "returned" /\ df = ThreeAt85) =>
        /\ \E k \in 1..Len(insights) :
             insights[k].metric = "memory" /\ insights[k].severity = "warning"
        /\ Len(BottleneckInsights(0)) = 1

\* C18: three samples of memory 85 percent and utilization 30, with memory
\* thresholds 85 and 90, give the bottleneck warning insight and no memory
\* insight, 85 being not above the warning threshold; three samples of
\* memory 86 percent give both the memory warning and the bottleneck warning.
C18_BottleneckAloneAtWarningThreshold ==
    apc = "returned" =>
        /\ df = ThreeAt85 =>
             /\ Len(insights) = 1
             /\ InsightsFor(0, "memory") = <<>>
             /\ Len(BottleneckInsights(0)) = 1
             /\ BottleneckInsights(0)[1].severity = "warning"
        /\ df = ThreeAt86 =>
             /\ Len(insights) = 2
             /\ Len(InsightsFor(0, "memory")) = 1
             /\ InsightsFor(0, "memory")[1].severity = "warning"
             /\ Len(BottleneckInsights(0)) = 1
             /\ BottleneckInsights(0)[1].severity = "warning"

C18_Witness_ThreeSamplesAt85 ==
    /\ apc = "returned"
    /\ df = ThreeAt85
    /\ config["memory"] = [warning |-> 85, critical |-> 90]
    /\ Len(insights) = 1

\* The rows of device g with memory above 80 percent and utilization below
\* 50 in the same row, and the sum of their memory percentages.
BottleneckRows(g) ==
    {i \in RowsOf(g) : /\ MemoryPct(df[i]) > BottleneckMemory
                       /\ df[i].utilization < BottleneckUtilization}

RECURSIVE MemoryPctSum(_)
MemoryPctSum(S) ==
    IF S = {} THEN 0
    ELSE LET i == CHOOSE j \in S : TRUE
         IN  MemoryPct(df[i]) + MemoryPctSum(S \ {i})

\* C19: when analyze_profile has returned, a device has exactly one
\* bottleneck insight, a warning, if at least one of its samples has memory
\* above 80 percent and utilization below 50, and none otherwise; the insight
\* is anchored at the last such sample and its value is the mean of the
\* memory percentage over those samples only.
C19_BottleneckCheck ==
    apc = "returned" =>
        \A g \in DeviceIds :
            LET found == BottleneckInsights(g)
                both == BottleneckRows(g)
            IN  IF both = {} THEN found = <<>>
                ELSE /\ Len(found) = 1
                     /\ found[1].severity = "warning"
                     /\ found[1].timestamp = df[Largest(both)].timestamp
                     /\ found[1].value.num * Cardinality(both)
                            = found[1].value.den * MemoryPctSum(both)

C19_Witness_MeanOverPartOfTheSeries ==
    /\ apc = "returned"
    /\ \E g \in DeviceIds :
         /\ BottleneckRows(g) # {}
         /\ \E i \in RowsOf(g) \ BottleneckRows(g) :
              /\ MemoryPct(df[i]) > BottleneckMemory
              /\ i > Largest(BottleneckRows(g))
         /\ Len(BottleneckInsights(g)) = 1

\* C20: no analyzer exists for a config that lacks the thresholds of a
\* metric, and no analyze_profile call fails after checks have appended
\* insights.
C20_ConfigErrorAtConstruction ==
    /\ apc # "new" => \A m \in MetricNames : config[m] # None
    /\ apc = "raised" => insights = <<>>

\* C21: when analyze_profile has returned, the threshold insight of a metric
\* for a device is anchored at the timestamp of the last of the device's
\* samples above the warning threshold, whichever sample holds the maximum,
\* and its value is the maximum of those samples.
C21_AnchoredAtLastSampleAbove ==
    apc = "returned" =>
        \A g \in DeviceIds, m \in MetricNames :
            LET above == RowsAbove(g, m)
                alerts == AlertsFor(g, m)
            IN  above # {} =>
                    /\ Len(alerts) = 1
                    /\ alerts[1].timestamp = df[Largest(above)].timestamp
                    /\ alerts[1].value = Rat(MaxObserved(g, m, above), 1)

C21_Witness_MaximumBeforeLastSampleAbove ==
    /\ apc = "returned"
    /\ \E g \in DeviceIds :
         LET above == RowsAbove(g, "utilization")
         IN  /\ \E i \in above :
                  /\ i < Largest(above)
                  /\ df[i].utilization > df[Largest(above)].utilization
                  /\ AlertsFor(g, "utilization")[1].value
                         = Rat(df[i].utilization, 1)
                  /\ AlertsFor(g, "utilization")[1].timestamp
                         # df[i].timestamp
             /\ AlertsFor(g, "utilization")[1].timestamp
                    = df[Largest(above)].timestamp

\* C26: an analyze_profile call on a frame without rows does not fail, and
\* returns no insight.
C26_EmptySeriesIsNoError ==
    (df = <<>> /\ apc \notin {"new", "ready"}) =>
        /\ apc # "raised"
        /\ insights = <<>>

\* The place of an insight's check in _analyze_gpu, and the row at which a
\* device first appears in the frame.
CheckRank(x) ==
    CASE x.metric = "memory_utilization_ratio" -> 6
      [] x.severity = "info"                   -> 5
      [] x.metric = "utilization"              -> 1
      [] x.metric = "memory"                   -> 2
      [] x.metric = "temperature"              -> 3
      [] x.metric = "power"                    -> 4

FirstRow(g) == CHOOSE i \in RowsOf(g) : \A j \in RowsOf(g) : i <= j

\* C22: when analyze_profile has returned, of any two insights the earlier
\* one belongs to the device that appears first in the frame, or both belong
\* to one device and the earlier one comes from the earlier check in the
\* order utilization, memory, temperature, power, idle runs, bottleneck, two
\* idle runs being in chronological order; severity plays no part.
C22_CreationOrder ==
    apc = "returned" =>
        \A j, k \in 1..Len(insights) :
            j < k =>
                LET x == insights[j]
                    y == insights[k]
                IN  \/ FirstRow(x.gpu_id) < FirstRow(y.gpu_id)
                    \/ /\ x.gpu_id = y.gpu_id
                       /\ \/ CheckRank(x) < CheckRank(y)
                          \/ /\ CheckRank(x) = 5
                             /\ CheckRank(y) = 5
                             /\ x.timestamp < y.timestamp

C22_Witness_WarningAndInfoBeforeCritical ==
    /\ apc = "returned"
    /\ df[1].device_id = 1
    /\ \E j, k \in 1..Len(insights) :
         /\ j < k
         /\ insights[j].gpu_id = 1 /\ insights[j].severity = "warning"
         /\ insights[k].gpu_id = 0 /\ insights[k].severity = "critical"
    /\ \E j, k \in 1..Len(insights) :
         /\ j < k
         /\ insights[j].gpu_id = insights[k].gpu_id
         /\ insights[j].severity = "info"
         /\ insights[k].severity = "warning"

\* The rows of device g whose memory_used exceeds memory_total.
OverfullRows(g) == {i \in RowsOf(g) : df[i].memory_used > df[i].memory_total}

\* C27: analyze_profile does not fail on a frame with rows whose memory_used
\* exceeds memory_total; when it has returned, the memory insight of such a
\* device is critical and its value is the largest percentage, above 100; a
\* row of that kind with utilization below 50 gives the bottleneck insight,
\* whose mean is above 100 when every row of the device is of that kind.
C27_OverfullMemoryTolerated ==
    /\ df # <<>> => apc # "raised"
    /\ apc = "returned" =>
         \A g \in DeviceIds :
             LET over == OverfullRows(g)
                 low == {i \in over : df[i].utilization < BottleneckUtilization}
             IN  over # {} =>
                     /\ Len(AlertsFor(g, "memory")) = 1
                     /\ AlertsFor(g, "memory")[1].severity = "critical"
                     /\ AlertsFor(g, "memory")[1].value =
                            Rat(Largest({(df[i].memory_used * 100)
                                             \div df[i].memory_total :
                                         i \in over}), 1)
                     /\ AlertsFor(g, "memory")[1].value.num > 100
                     /\ low # {} => Len(BottleneckInsights(g)) = 1
                     /\ low = RowsOf(g) =>
                            BottleneckInsights(g)[1].value.num
                                > 100 * BottleneckInsights(g)[1].value.den

C27_Witness_MemoryAt120Percent ==
    /\ apc = "returned"
    /\ OverfullRows(0) # {}
    /\ \A i \in OverfullRows(0) : df[i].utilization < BottleneckUtilization
    /\ OverfullRows(0) # RowsOf(0)
    /\ AlertsFor(0, "memory")[1].value = Rat(120, 1)
    /\ Len(BottleneckInsights(0)) = 1

\* C23: the insight sequence a call of analyze_profile has returned is the
\* one its own frame and the configuration give, also when the calls of two
\* threads on the same analyzer interleave.
C23_ResultOfOwnInputOnly ==
    \A c \in Threads :
        calls[c].pc = "returned" =>
            ResultOf(c) = analyze_profile(config, calls[c].df)

HasReturned(j) == j \in 1..Len(earlier) /\ earlier[j].returned

\* C24: two returned calls of analyze_profile on the same frame, the later
\* one on the same analyzer or on a fresh one, have returned the same
\* insight sequence, so that nothing of an earlier call is left in a later
\* result; and every returned call has left its frame as it was given.
C24_Idempotent ==
    /\ \A j, k \in 1..Len(earlier) :
           (HasReturned(j) /\ HasReturned(k) /\ earlier[j].given = earlier[k].given)
               => earlier[j].result = earlier[k].result
    /\ \A k \in 1..Len(earlier) :
           HasReturned(k) => earlier[k].left = earlier[k].given

C24_Witness_SameAnalyzerSameIdleRun ==
    /\ Len(earlier) = 2
    /\ HasReturned(2)
    /\ ~earlier[2].fresh
    /\ earlier[1].given = earlier[2].given
    /\ \E x \in 1..Len(earlier[2].result) :
           earlier[2].result[x].severity = "info"
    /\ \E x \in 1..Len(earlier[2].result) :
           earlier[2].result[x].severity = "critical"

\* The snapshots of device d in a frame, and the insights for device d in a
\* result.
SnapshotsOf(frame, d) == SelectSeq(frame, LAMBDA r : r.device_id = d)
InsightsOf(result, d) == SelectSeq(result, LAMBDA x : x.gpu_id = d)

\* C25: two returned calls of analyze_profile whose frames agree on the
\* snapshots of device d have returned the same insights for device d,
\* whatever the snapshots of the other devices are.
C25_DevicesIndependent ==
    \A j, k \in 1..Len(earlier), d \in DeviceIds :
        (/\ HasReturned(j)
         /\ HasReturned(k)
         /\ SnapshotsOf(earlier[j].given, d) = SnapshotsOf(earlier[k].given, d))
            => InsightsOf(earlier[j].result, d) = InsightsOf(earlier[k].result, d)

C25_Witness_OtherDeviceHotThenNot ==
    /\ Len(earlier) = 2
    /\ HasReturned(2)
    /\ \E d \in DeviceIds :
         /\ SnapshotsOf(earlier[1].given, d) = SnapshotsOf(earlier[2].given, d)
         /\ InsightsOf(earlier[2].result, d) # <<>>
         /\ \E o \in DeviceIds \ {d} :
              /\ SnapshotsOf(earlier[1].given, o) # SnapshotsOf(earlier[2].given, o)
              /\ InsightsOf(earlier[1].result, o) # InsightsOf(earlier[2].result, o)
              /\ InsightsOf(earlier[1].result, o) # <<>>

EnvironmentTypes == {"bare-metal", "vm", "container"}

\* The type that the probes of a call decide: container before vm.
Decided(probe) ==
    IF probe.container_type # "None" THEN "container"
    ELSE IF probe.hypervisor # "None" THEN "vm"
    ELSE "bare-metal"

\* C28: every EnvironmentInfo that get_environment_info has returned has an
\* environment_type among bare-metal, vm and container, the one that the
\* probes of the first call on the detector decided, container before vm,
\* whatever the probes of the later calls found; its hypervisor is set only
\* when the type is vm and its container_type only when it is container.
C28_EnvironmentTypeDecidedOnce ==
    \A k \in 1..Len(env_calls) :
        env_calls[k].returned =>
            /\ env_calls[k].info.environment_type \in EnvironmentTypes
            /\ env_calls[k].info.environment_type = Decided(env_calls[1].probe)
            /\ env_calls[k].info.hypervisor # "None"
                   => env_calls[k].info.environment_type = "vm"
            /\ env_calls[k].info.container_type # "None"
                   => env_calls[k].info.environment_type = "container"

C28_Witness_ContainerInVmThenBareMetalProbe ==
    /\ Len(env_calls) >= 2
    /\ env_calls[1].probe = [container_type |-> "Docker", hypervisor |-> "KVM"]
    /\ env_calls[1].returned
    /\ env_calls[2].probe = [container_type |-> "None", hypervisor |-> "None"]
    /\ env_calls[2].returned
    /\ env_calls[2].info.environment_type = "container"
    /\ env_calls[2].info.container_type = "Docker"
    /\ env_calls[2].info.hypervisor = "None"

PositiveDuration == duration # None /\ duration[1] > 0

\* The last tick made is a tick of the current run.
TickedThisRun == Len(ticks) > 0 /\ Last(ticks).run = runs

\* C29: a run that has left its first _collect_sample has made a tick; with
\* a positive duration d the run never sleeps, and never makes a further
\* tick, after a check at which the time since start was d or more, and the
\* loop is left for the finally clause without an interrupt or an error only
\* at such a check.
C29_DurationCheckedAfterTick ==
    /\ (runs > 0 /\ pc # "collect") => TickedThisRun
    /\ (pc = "sleep" /\ PositiveDuration) => now - start_time < duration[1]
    /\ (pc = "collect" /\ TickedThisRun /\ PositiveDuration) =>
           (now - sampling_interval) - start_time < duration[1]
    /\ ( /\ pc = "finally"
         /\ ~InLog("Profiling interrupted by user")
         /\ ~InLog("Error during profiling") ) =>
           /\ PositiveDuration
           /\ now - start_time >= duration[1]

C29_Witness_ExitAtSecondCheck ==
    /\ pc = "finally"
    /\ duration = <<1>>
    /\ Cardinality(RunTicks) = 2
    /\ now - start_time >= 1
    /\ \A i \in RunTicks : ticks[i].began - start_time < 1
    /\ ~InLog("Profiling interrupted by user")
    /\ ~InLog("Error during profiling")

====
